---- MODULE Spec2Model ----
(***************************************************************************)
(* Model of speculate_and_leak.cpp: the per-byte recovery procedure        *)
(* leak_byte and its helper get_top_two.                                   *)
(*                                                                         *)
(* The hardware (cache, branch predictor, time stamp counter) is an        *)
(* external nondeterministic resource: a timing sample is any value of a   *)
(* bounded set, a transient read may or may not leave its line in cache.   *)
(*                                                                         *)
(* Specifications:                                                         *)
(*   Spec         the round loop of leak_byte, one action per phase        *)
(*   SpecTopTwo   get_top_two applied to every bounded vector              *)
(*   SpecScore    one scoring step applied to bounded latency vectors      *)
(*   SpecTrain    the training loop, one action per iteration              *)
(*   SpecMeasure  the measurement loop, one action per timing entry        *)
(***************************************************************************)
EXTENDS Integers, Sequences, FiniteSets, TLC

VARIABLES
    pc,            \* position in the procedure under the current specification
    private_data0, \* the accessible byte private_data[0]
    secret,        \* the byte private_data[index] for index # 0
    index,         \* the int parameter of leak_byte
    cache,         \* lines of timing_array currently in cache
    times,         \* std::array<int64_t, NUM_LINES> times
    scores,        \* std::array<int, NUM_LINES> scores
    top,           \* the pair of positions top = {first, second}
    run,           \* loop variable of the round loop
    flagged,       \* TRUE once "[[[unlikely]]]:" has been written to std::cout
    result,        \* the byte returned, -1 before the return
    i_train,       \* loop variable of the training loop
    retired,       \* set of local_index values whose forced read retired
    counts,        \* training loop tallies, see IdleTrain
    i_meas,        \* loop variable of the measurement loop
    order,         \* visit order of the current measurement pass
    prev_order,    \* visit order of the previous measurement pass
    written,       \* timing entries written in the current pass
    twice,         \* timing entries written more than once in the current pass
    pass,          \* number of the current measurement pass
    vec,           \* argument of get_top_two in SpecTopTwo
    pair           \* value returned by get_top_two in SpecTopTwo

vars == <<pc, private_data0, secret, index, cache, times, scores, top, run,
          flagged, result, i_train, retired, counts, i_meas, order,
          prev_order, written, twice, pass, vec, pair>>

----------------------------------------------------------------------------
(* Program constants *)

NUM_LINES == 256

TRAIN_ITERS == 500

TRAIN_PERIOD == 10

SHUFFLE_MUL == 167

SHUFFLE_ADD == 13

SLOW_SIZE == 1

PAGE_SIZE == 4096

(* Bounds of the exploration.  The round cap (run < 1000) and the score    *)
(* gap (+ 200) of the source bound the round loop; it is explored with     *)
(* both scaled down, keeping RUN_CAP > SCORE_GAP as in the source.         *)
RUN_CAP == 7

SCORE_GAP == 2

\* length and values of the vectors get_top_two is applied to in SpecTopTwo
MaxLen == 4

MaxVal == 2

\* measurement passes explored in SpecMeasure
MaxPass == 2

Lines == 0 .. (NUM_LINES - 1)

INT_MAX == 2147483647

INT_MIN == (-2147483647) - 1

(* A C++ array of n elements is a sequence of length n: element i of the   *)
(* array, *(begin + i), is the (i+1)-th element of the sequence.           *)
Deref(a, i) == a[i + 1]

Store(a, i, x) == [a EXCEPT ![i + 1] = x]

----------------------------------------------------------------------------
(* get_top_two: the scan over [begin, end), positions counted from begin.  *)
(* jk is the pair <<j, k>> of the two iterators.  The loop is a left fold  *)
(* of the loop body over first .. last-1; the fold over a range is the     *)
(* fold over its first half followed by the fold over its second half     *)
(* started from the first half's value (the one element of the inner set), *)
(* which keeps the depth of evaluation logarithmic in the length.          *)

top_two_step_noelse(v, i, jk) ==
    IF Deref(v, i) > Deref(v, jk[1]) THEN <<i, jk[1]>>
    ELSE jk

\* the body of the loop for position i
top_two_step(v, i, jk) ==
    IF Deref(v, i) > Deref(v, jk[1]) THEN <<i, jk[1]>>
    ELSE IF Deref(v, i) > Deref(v, jk[2]) THEN <<jk[1], i>>
    ELSE jk

RECURSIVE top_two_scan(_, _, _, _)
top_two_scan(v, first, last, jk) ==
    IF first = last THEN jk
    ELSE IF last = first + 1 THEN top_two_step(v, first, jk)
    ELSE LET mid == first + ((last - first) \div 2)
         IN  CHOOSE r \in {top_two_scan(v, mid, last, half) :
                            half \in {top_two_scan(v, first, mid, jk)}} : TRUE

get_top_two(v, n) == top_two_scan(v, 0, n, <<0, 0>>)

----------------------------------------------------------------------------
(* Reference notions the claims are stated with (not taken from the code). *)

MaxOf(S) == CHOOSE m \in S : \A x \in S : x <= m

\* earliest position of v (n elements) holding the maximum
EarliestMax(v, n) ==
    LET m == MaxOf({Deref(v, q) : q \in 0 .. (n - 1)})
    IN  CHOOSE p \in 0 .. (n - 1) :
            Deref(v, p) = m /\ \A q \in 0 .. (p - 1) : Deref(v, q) < m

\* the highest value among the positions other than the earliest maximum
RunnerUpValue(v, n) ==
    MaxOf({Deref(v, q) : q \in (0 .. (n - 1)) \ {EarliestMax(v, n)}})

\* best > 2 x second + SCORE_GAP on the true best and the true runner-up
GapHolds(v) ==
    Deref(v, EarliestMax(v, NUM_LINES))
        > 2 * RunnerUpValue(v, NUM_LINES) + SCORE_GAP

----------------------------------------------------------------------------
(* Values shared by the initial states *)

NoTimes == [p \in 1 .. NUM_LINES |-> 0]

NoScores == [p \in 1 .. NUM_LINES |-> 0]

IdleLeak ==
    /\ private_data0 = 0 /\ secret = 0 /\ index = 0
    /\ cache = {} /\ times = <<>> /\ scores = <<>>
    /\ top = <<0, 0>> /\ run = 0 /\ flagged = FALSE /\ result = -1

IdleTrain ==
    /\ i_train = 0 /\ retired = {}
    /\ counts = [safe_retired |-> 0, target_retired |-> 0, target_rejected |-> 0]

IdleMeasure ==
    /\ i_meas = 0 /\ order = <<>> /\ prev_order = <<>>
    /\ written = {} /\ twice = {} /\ pass = 0

IdleTopTwo == vec = <<>> /\ pair = <<0, 0>>

----------------------------------------------------------------------------
(* SpecTopTwo: get_top_two on every vector of 2..MaxLen values 0..MaxVal   *)

Vectors == UNION {[1 .. n -> 0 .. MaxVal] : n \in 2 .. MaxLen}

InitTopTwo ==
    /\ pc = "call" /\ vec \in Vectors /\ pair = <<0, 0>>
    /\ IdleLeak /\ IdleTrain /\ IdleMeasure

CallTopTwo ==
    /\ pc = "call"
    /\ pair' = get_top_two(vec, Len(vec))
    /\ pc' = "returned"
    /\ UNCHANGED <<private_data0, secret, index, cache, times, scores, top,
                   run, flagged, result, i_train, retired, counts, i_meas,
                   order, prev_order, written, twice, pass, vec>>

NextTopTwo == CallTopTwo

SpecTopTwo == InitTopTwo /\ [][NextTopTwo]_vars

\* C8: for every vector, get_top_two returns (first, second) with first the
\* earliest position of the maximum and second a different position holding
\* the maximum over all other positions.
C8_TopTwoIsBestAndRunnerUp ==
    pc = "returned" =>
        /\ pair[1] = EarliestMax(vec, Len(vec))
        /\ pair[2] # pair[1]
        /\ Deref(vec, pair[2]) = RunnerUpValue(vec, Len(vec))

----------------------------------------------------------------------------
(* Arithmetic of the scoring step.                                         *)
(* std::accumulate(times.begin(), times.end(), 0) has an int accumulator:  *)
(* each step computes acc + *it in 64 bits and converts the sum back to    *)
(* int, i.e. keeps it modulo 2^32.  Latencies are taken in 0 .. 2^30 - 1,  *)
(* so acc + t lies in -2^31 .. 2^31 + 2^30 - 1 and wraps at most once.     *)

to_int_sum(acc, t) ==
    IF acc > INT_MAX - t
    THEN ((acc - INT_MAX) - 1) + ((t - INT_MAX) - 1)
    ELSE acc + t

\* int / int: the quotient truncated toward zero (b > 0)
int_div(a, b) ==
    IF a < 0 /\ a % b # 0 THEN (a \div b) + 1 ELSE a \div b

\* the left fold acc = acc + *it over first .. last-1, bracketed as in
\* top_two_scan
RECURSIVE accumulate(_, _, _, _)
accumulate(v, first, last, acc) ==
    IF first = last THEN acc
    ELSE IF last = first + 1 THEN to_int_sum(acc, Deref(v, first))
    ELSE LET mid == first + ((last - first) \div 2)
         IN  CHOOSE r \in {accumulate(v, mid, last, half) :
                            half \in {accumulate(v, first, mid, acc)}} : TRUE

t_avg_nodiv(t) == accumulate(t, 0, NUM_LINES, 0)

t_avg(t) == int_div(accumulate(t, 0, NUM_LINES, 0), NUM_LINES)

\* the byte private_data[ix]
private_data(ix) == IF ix = 0 THEN private_data0 ELSE secret

\* the char returned for the position d = top.first - scores.begin(): the
\* conversion keeps the low 8 bits of d; result holds that byte as 0..255
\* (whether char is signed is implementation-defined)
to_char(d) == d % 256

----------------------------------------------------------------------------
(* Spec: the round loop of leak_byte                                       *)

HotLines == {0, 1, 255}

\* timing samples of one round: the lines of F are fast, the others slow
RoundTimes ==
    {[p \in 1 .. NUM_LINES |-> IF (p - 1) \in F THEN 40 ELSE 300] :
        F \in SUBSET HotLines}

Init ==
    /\ pc = "flush"
    /\ private_data0 \in {0, 1}
    /\ secret = 255
    /\ index \in {0, PAGE_SIZE}
    /\ cache = {}
    /\ times = NoTimes
    /\ scores = NoScores
    /\ top = <<0, 0>>
    /\ run = 0
    /\ flagged = FALSE
    /\ result = -1
    /\ IdleTrain /\ IdleMeasure /\ IdleTopTwo

unchanged_loops ==
    UNCHANGED <<i_train, retired, counts, i_meas, order, prev_order, written,
                twice, pass, vec, pair>>

\* _mm_clflush of every line of timing_array
Flush ==
    /\ pc = "flush"
    /\ cache' = cache \ Lines
    /\ pc' = "train"
    /\ UNCHANGED <<private_data0, secret, index, times, scores, top, run,
                   flagged, result>>
    /\ unchanged_loops

\* the 500 training iterations: the reads at index 0 retire; the reads at
\* the target index retire when index < *slow_size, and otherwise may or
\* may not have run transiently
Train ==
    /\ pc = "train"
    /\ \E transient \in BOOLEAN :
        cache' = cache \cup {private_data(0)}
                       \cup (IF index < SLOW_SIZE \/ transient
                             THEN {private_data(index)} ELSE {})
    /\ pc' = "measure"
    /\ UNCHANGED <<private_data0, secret, index, times, scores, top, run,
                   flagged, result>>
    /\ unchanged_loops

\* the measurement pass: every entry of times is overwritten with a sample
Measure ==
    /\ pc = "measure"
    /\ times' \in RoundTimes
    /\ cache' = cache \cup Lines
    /\ pc' = "score"
    /\ UNCHANGED <<private_data0, secret, index, scores, top, run, flagged,
                   result>>
    /\ unchanged_loops

ScoreNoExclusion ==
    /\ pc = "score"
    /\ \E avg \in {t_avg(times)} :
           scores' = [p \in 1 .. NUM_LINES |->
                        IF times[p] * 2 < avg
                        THEN scores[p] + 1 ELSE scores[p]]
    /\ pc' = "check"
    /\ UNCHANGED <<private_data0, secret, index, cache, times, top, run,
                   flagged, result>>
    /\ unchanged_loops

ScoreResets ==
    /\ pc = "score"
    /\ \E avg \in {t_avg(times)} :
           scores' = [p \in 1 .. NUM_LINES |->
                        IF times[p] * 2 < avg /\ (p - 1) # private_data(0)
                        THEN scores[p] + 1 ELSE 0]
    /\ pc' = "check"
    /\ UNCHANGED <<private_data0, secret, index, cache, times, top, run,
                   flagged, result>>
    /\ unchanged_loops

ScoreByTwo ==
    /\ pc = "score"
    /\ \E avg \in {t_avg(times)} :
           scores' = [p \in 1 .. NUM_LINES |->
                        IF times[p] * 2 < avg /\ (p - 1) # private_data(0)
                        THEN scores[p] + 2 ELSE scores[p]]
    /\ pc' = "check"
    /\ UNCHANGED <<private_data0, secret, index, cache, times, top, run,
                   flagged, result>>
    /\ unchanged_loops

\* t_avg and the scoring loop
Score ==
    /\ pc = "score"
    /\ \E avg \in {t_avg(times)} :
           scores' = [p \in 1 .. NUM_LINES |->
                        IF times[p] * 2 < avg /\ (p - 1) # private_data(0)
                        THEN scores[p] + 1 ELSE scores[p]]
    /\ pc' = "check"
    /\ UNCHANGED <<private_data0, secret, index, cache, times, top, run,
                   flagged, result>>
    /\ unchanged_loops

\* the value of the exit test on the scores s for the pair t of positions
clear_winner(s, t) == Deref(s, t[1]) > Deref(s, t[2]) * 2 + SCORE_GAP

\* top = get_top_two(...); the test succeeds: return top.first - begin
EarlyExit ==
    /\ pc = "check"
    /\ top' = get_top_two(scores, NUM_LINES)
    /\ clear_winner(scores, top')
    /\ result' = to_char(top'[1])
    /\ pc' = "done"
    /\ UNCHANGED <<private_data0, secret, index, cache, times, scores, run,
                   flagged>>
    /\ unchanged_loops

\* the test fails and ++run leaves run < RUN_CAP: next round
NextRound ==
    /\ pc = "check"
    /\ top' = get_top_two(scores, NUM_LINES)
    /\ ~clear_winner(scores, top')
    /\ run + 1 < RUN_CAP
    /\ run' = run + 1
    /\ pc' = "flush"
    /\ UNCHANGED <<private_data0, secret, index, cache, times, scores,
                   flagged, result>>
    /\ unchanged_loops

CapReturnUnflagged ==
    /\ pc = "check"
    /\ top' = get_top_two(scores, NUM_LINES)
    /\ ~clear_winner(scores, top')
    /\ ~(run + 1 < RUN_CAP)
    /\ run' = run + 1
    /\ result' = to_char(top'[1])
    /\ pc' = "done"
    /\ UNCHANGED <<private_data0, secret, index, cache, times, scores,
                   flagged>>
    /\ unchanged_loops

\* the test fails and the loop ends: print the flag, return top.first - begin
CapReturn ==
    /\ pc = "check"
    /\ top' = get_top_two(scores, NUM_LINES)
    /\ ~clear_winner(scores, top')
    /\ ~(run + 1 < RUN_CAP)
    /\ run' = run + 1
    /\ flagged' = TRUE
    /\ result' = to_char(top'[1])
    /\ pc' = "done"
    /\ UNCHANGED <<private_data0, secret, index, cache, times, scores>>
    /\ unchanged_loops

Next ==
    \/ Flush
    \/ Train
    \/ Measure
    \/ Score
    \/ EarlyExit
    \/ NextRound
    \/ CapReturn

Spec == Init /\ [][Next]_vars

\* rounds whose scoring step has run
RoundsScored == IF pc \in {"check", "done"} /\ ~flagged THEN run + 1 ELSE run

best_score == Deref(scores, EarliestMax(scores, NUM_LINES))

\* the excluded candidate was measured faster than half the round mean
ExcludedWasFast == Deref(times, private_data(0)) * 2 < t_avg(times)

\* C1: leak_byte returns without the low-confidence flag only with
\* best > 2 x runner-up + gap on the true best and runner-up scores; every
\* return without that gap is the flagged return at the round cap.
C1_UnflaggedReturnHasGap ==
    pc = "done" =>
        IF GapHolds(scores) THEN TRUE ELSE flagged /\ run = RUN_CAP

C1_Witness ==
    /\ pc = "done" /\ ~flagged
    /\ GapHolds(scores)
    /\ RunnerUpValue(scores, NUM_LINES) > 0

\* C2: whenever the scores after a round's scoring satisfy
\* best > 2 x runner-up + gap, leak_byte returns the best index in that round:
\* no later round starts with such scores, and a return with such scores is
\* the unflagged return of the best index.
C2_GapForcesExit ==
    /\ (pc = "flush" /\ run > 0) => ~GapHolds(scores)
    /\ (pc = "done" /\ GapHolds(scores)) =>
            ~flagged /\ result = EarliestMax(scores, NUM_LINES)

\* C3: every score starts at 0, no step lowers a score, and only the scoring
\* step changes the score vector.
C3_ScoresMonotone ==
    /\ \A p \in 1 .. NUM_LINES : scores[p] = 0
    /\ [][/\ \A p \in 1 .. NUM_LINES : scores'[p] >= scores[p]
          /\ (scores' # scores => pc = "score")]_vars

C3_Witness == pc = "flush" /\ best_score >= 2

\* C4 as stated: the score of candidate index 0 is 0 in every reachable state.
C4_ScoreOfIndexZeroStaysZero == Deref(scores, 0) = 0

\* C4 amended: the score of the candidate equal to the value of
\* private_data[0] is 0 in every reachable state, even when that candidate's
\* latency is below half the round mean.
C4_ScoreOfExcludedStaysZero == Deref(scores, private_data(0)) = 0

C4_Witness ==
    /\ pc = "check" /\ private_data(0) # 0 /\ ExcludedWasFast
    /\ best_score > 0

\* steps left at most: the rounds not yet started, five phases each, plus the
\* phases left in the current round
PhasesLeft ==
    CASE pc = "flush" -> 5
      [] pc = "train" -> 4
      [] pc = "measure" -> 3
      [] pc = "score" -> 2
      [] pc = "check" -> 1
      [] pc = "done" -> 0

Rank == 5 * (RUN_CAP - run) + PhasesLeft

\* C5: every step of leak_byte strictly lowers Rank, which stays a natural
\* number, and the rounds scored never exceed RUN_CAP: leak_byte terminates
\* after at most RUN_CAP rounds.  A return whose exit test failed comes after
\* exactly RUN_CAP rounds, is flagged and yields the earliest index holding
\* the highest score.
C5_RoundCap ==
    [][/\ Rank' < Rank
       /\ Rank' >= 0
       /\ RoundsScored' <= RUN_CAP
       /\ (pc' = "done" /\ ~clear_winner(scores', top')) =>
                /\ flagged'
                /\ run' = RUN_CAP
                /\ result' = EarliestMax(scores', NUM_LINES)]_vars

C5_Witness ==
    /\ pc = "done" /\ flagged
    /\ best_score > 0
    /\ \E q \in Lines \ {EarliestMax(scores, NUM_LINES)} :
            Deref(scores, q) = best_score

\* C10: after r rounds every score is at most r; no return happens before
\* SCORE_GAP + 1 rounds have been scored, and an unflagged return never
\* yields the candidate equal to the value of private_data[0].
C10_NoEarlyReturn ==
    /\ \A p \in 1 .. NUM_LINES : scores[p] <= RoundsScored
    /\ pc = "done" => RoundsScored >= SCORE_GAP + 1
    /\ (pc = "done" /\ ~flagged) => result # private_data(0)

C10_Witness ==
    /\ pc = "done" /\ ~flagged
    /\ RoundsScored = SCORE_GAP + 1
    /\ ExcludedWasFast

----------------------------------------------------------------------------
(* SpecScore: one scoring step on latency vectors of 256 entries, all      *)
(* entries equal but two, with values that reach the truncation of the     *)
(* integer mean and the 32-bit wrap of the sum.                            *)

LatencyVals == {0, 1, 2, 3, 4, 8388608, 16777216}

ScoreTimes ==
    {[p \in 1 .. NUM_LINES |->
        IF p - 1 = 1 THEN ta ELSE IF p - 1 = 255 THEN tb ELSE base] :
        ta \in LatencyVals, tb \in LatencyVals, base \in LatencyVals}

InitScore ==
    /\ pc = "score"
    /\ private_data0 \in {0, 1}
    /\ secret = 255
    /\ index = PAGE_SIZE
    /\ cache = Lines
    /\ times \in ScoreTimes
    /\ scores = NoScores
    /\ top = <<0, 0>>
    /\ run = 0
    /\ flagged = FALSE
    /\ result = -1
    /\ IdleTrain /\ IdleMeasure /\ IdleTopTwo

NextScore == Score

SpecScore == InitScore /\ [][NextScore]_vars

\* The exact sum S of the latencies is kept as high * 65536 + low, with
\* high the sum of the quotients and low the sum of the remainders by 65536.
RECURSIVE SumHigh(_, _, _)
SumHigh(t, first, last) ==
    IF first = last THEN 0
    ELSE IF last = first + 1 THEN Deref(t, first) \div 65536
    ELSE LET mid == first + ((last - first) \div 2)
         IN  SumHigh(t, first, mid) + SumHigh(t, mid, last)

RECURSIVE SumLow(_, _, _)
SumLow(t, first, last) ==
    IF first = last THEN 0
    ELSE IF last = first + 1 THEN Deref(t, first) % 65536
    ELSE LET mid == first + ((last - first) \div 2)
         IN  SumLow(t, first, mid) + SumLow(t, mid, last)

\* S < 2^31: the sum is representable in an int
SumFitsInt(t) ==
    SumHigh(t, 0, NUM_LINES) + (SumLow(t, 0, NUM_LINES) \div 65536) < 32768

ExactSum(t) == SumHigh(t, 0, NUM_LINES) * 65536 + SumLow(t, 0, NUM_LINES)

\* latency < mean / 2 with mean = S / 256 in exact arithmetic means
\* 512 * latency < S, i.e. latency < ceiling(S / 512): this is ceiling(S / 512)
HalfMeanCeil(t) ==
    SumHigh(t, 0, NUM_LINES) * 128 + ((SumLow(t, 0, NUM_LINES) + 511) \div 512)

\* floor(S / 256) when S fits in an int, -1 when it does not
FloorMean(t) ==
    IF SumFitsInt(t) THEN ExactSum(t) \div NUM_LINES ELSE -1

\* C7 as stated: the scoring step raises a score, by exactly 1, if and only
\* if the candidate is not the excluded one and its latency is less than half
\* the exact mean of the 256 latencies.
C7_ScoredIffBelowHalfMean ==
    pc = "check" =>
        \A half \in {HalfMeanCeil(times)} : \A i \in Lines :
            /\ Deref(scores, i) \in {0, 1}
            /\ Deref(scores, i) = 1 <=>
                    (i # private_data(0) /\ Deref(times, i) < half)

\* C7 amended: the scoring step raises a score by 0 or 1, and by 1 only if
\* the candidate is not the excluded one and its latency is less than half
\* the exact mean; when the sum of the latencies fits in an int, it raises
\* exactly the scores of the non-excluded candidates with
\* 2 * latency < floor(mean).
C7_ScoredOnlyIfBelowHalfMean ==
    pc = "check" =>
        \A half \in {HalfMeanCeil(times)}, mean \in {FloorMean(times)} :
        \A i \in Lines :
            /\ Deref(scores, i) \in {0, 1}
            /\ Deref(scores, i) = 1 =>
                    (i # private_data(0) /\ Deref(times, i) < half)
            /\ mean >= 0 =>
                    (Deref(scores, i) = 1 <=>
                        (i # private_data(0) /\ Deref(times, i) * 2 < mean))

C7_Witness ==
    /\ pc = "check"
    /\ \E half \in {HalfMeanCeil(times)} : \E i, j \in HotLines :
        /\ Deref(scores, i) = 1
        /\ j # private_data(0) /\ Deref(times, j) < half
        /\ Deref(scores, j) = 0

----------------------------------------------------------------------------
(* SpecTrain: the training loop of one round, one action per iteration.    *)
(* The flush of slow_size and the stall change no program state; their     *)
(* effect, the window in which the branch body runs transiently, is the    *)
(* choice made in TrainSkip.                                               *)

TrainIndexes == {INT_MIN, -1, 0, 1, PAGE_SIZE, INT_MAX}

\* the iteration selects the target index
selects_target(i) == ~((i + 1) % TRAIN_PERIOD # 0)

local_index(i) == IF (i + 1) % TRAIN_PERIOD # 0 THEN 0 ELSE index

\* local_index < *slow_size, a comparison of two ints
bounds_check(li) == li < SLOW_SIZE

InitTrain ==
    /\ pc = "train_loop"
    /\ private_data0 \in {0, 1}
    /\ secret = 255
    /\ index \in TrainIndexes
    /\ cache = {}
    /\ times = NoTimes
    /\ scores = NoScores
    /\ top = <<0, 0>>
    /\ run = 0
    /\ flagged = FALSE
    /\ result = -1
    /\ IdleTrain /\ IdleMeasure /\ IdleTopTwo

unchanged_by_train ==
    UNCHANGED <<private_data0, secret, index, times, scores, top, run,
                flagged, result, i_meas, order, prev_order, written, twice,
                pass, vec, pair>>

\* the check passes: the forced read retires
TrainRead ==
    /\ pc = "train_loop"
    /\ i_train < TRAIN_ITERS
    /\ bounds_check(local_index(i_train))
    /\ cache' = cache \cup {private_data(local_index(i_train))}
    /\ retired' = retired \cup {local_index(i_train)}
    /\ counts' = IF selects_target(i_train)
                 THEN [counts EXCEPT !.target_retired = @ + 1]
                 ELSE [counts EXCEPT !.safe_retired = @ + 1]
    /\ i_train' = i_train + 1
    /\ UNCHANGED pc
    /\ unchanged_by_train

\* the check fails: no read retires; the branch body may have run
\* transiently and left its line in cache
TrainSkip ==
    /\ pc = "train_loop"
    /\ i_train < TRAIN_ITERS
    /\ ~bounds_check(local_index(i_train))
    /\ \E transient \in BOOLEAN :
        cache' = IF transient
                 THEN cache \cup {private_data(local_index(i_train))}
                 ELSE cache
    /\ counts' = IF selects_target(i_train)
                 THEN [counts EXCEPT !.target_rejected = @ + 1]
                 ELSE counts
    /\ i_train' = i_train + 1
    /\ UNCHANGED <<pc, retired>>
    /\ unchanged_by_train

TrainEnd ==
    /\ pc = "train_loop"
    /\ ~(i_train < TRAIN_ITERS)
    /\ pc' = "trained"
    /\ UNCHANGED <<cache, i_train, retired, counts>>
    /\ unchanged_by_train

NextTrain == TrainRead \/ TrainSkip \/ TrainEnd

SpecTrain == InitTrain /\ [][NextTrain]_vars

\* C9 as stated: for every target index different from 0 the bounds check
\* fails on each of the 50 iterations that select the target index, and the
\* only reads that retire are the 450 reads indexed by private_data[0].
C9_CheckFailsForNonZeroIndex ==
    (pc = "trained" /\ index # 0) =>
        /\ counts.target_rejected = 50
        /\ counts.target_retired = 0
        /\ counts.safe_retired = 450
        /\ retired = {0}

\* What the loop does instead: for every target index greater than 0 the
\* check fails on the 50 target iterations and only the 450 reads indexed by
\* private_data[0] retire; for a negative target index the check passes on
\* these 50 iterations and the read at the target index retires.
TrainOutcome ==
    /\ (pc = "trained" /\ index > 0) =>
        /\ counts.target_rejected = 50
        /\ counts.target_retired = 0
        /\ counts.safe_retired = 450
        /\ retired = {0}
    /\ (pc = "trained" /\ index < 0) =>
        /\ counts.target_rejected = 0
        /\ counts.target_retired = 50
        /\ counts.safe_retired = 450
        /\ retired = {0, index}

----------------------------------------------------------------------------
(* SpecMeasure: the measurement loop, one action per timing entry, over    *)
(* MaxPass rounds.  A read of a cached line takes 40 cycles, of an evicted *)
(* line 300.                                                               *)

shuffled_even(i) == ((i * (SHUFFLE_MUL - 1)) + SHUFFLE_ADD) % 256

\* ((i * 167) + 13) & 0xff
shuffled(i) == ((i * SHUFFLE_MUL) + SHUFFLE_ADD) % 256

\* what flushing and training leave in cache before a measurement pass
TrainedCaches == {{private_data(0)}, {private_data(0), secret}}

InitMeasure ==
    /\ pc = "measure_loop"
    /\ private_data0 \in {0, 1}
    /\ secret = 255
    /\ index \in {0, PAGE_SIZE}
    /\ cache \in TrainedCaches
    /\ times = NoTimes
    /\ scores = NoScores
    /\ top = <<0, 0>>
    /\ run = 0
    /\ flagged = FALSE
    /\ result = -1
    /\ i_meas = 0 /\ order = <<>> /\ prev_order = <<>>
    /\ written = {} /\ twice = {} /\ pass = 1
    /\ IdleTrain /\ IdleTopTwo

unchanged_by_measure ==
    UNCHANGED <<private_data0, secret, index, scores, top, run, flagged,
                result, i_train, retired, counts, vec, pair>>

\* one iteration: time the forced read of entry shuffled_i, store it
MeasureStep ==
    /\ pc = "measure_loop"
    /\ i_meas < NUM_LINES
    /\ \E shuffled_i \in {shuffled(i_meas)} :
        /\ times' = Store(times, shuffled_i,
                          IF shuffled_i \in cache THEN 40 ELSE 300)
        /\ cache' = cache \cup {shuffled_i}
        /\ order' = Append(order, shuffled_i)
        /\ twice' = IF shuffled_i \in written
                    THEN twice \cup {shuffled_i} ELSE twice
        /\ written' = written \cup {shuffled_i}
    /\ i_meas' = i_meas + 1
    /\ UNCHANGED <<pc, prev_order, pass>>
    /\ unchanged_by_measure

\* the loop ends; the next round flushes, trains and measures again
NextPass ==
    /\ pc = "measure_loop"
    /\ ~(i_meas < NUM_LINES)
    /\ pass < MaxPass
    /\ cache' \in TrainedCaches
    /\ prev_order' = order
    /\ order' = <<>>
    /\ written' = {}
    /\ twice' = {}
    /\ i_meas' = 0
    /\ pass' = pass + 1
    /\ UNCHANGED <<pc, times>>
    /\ unchanged_by_measure

NextMeasure == MeasureStep \/ NextPass

SpecMeasure == InitMeasure /\ [][NextMeasure]_vars

\* C6: at the end of every measurement pass each of the 256 timing entries
\* has been written exactly once in that pass, the visit order is a
\* permutation of 0..255 that is not index order, it starts 13, 180, and it
\* equals the visit order of the previous pass.
C6_ShuffleIsFixedPermutation ==
    (pc = "measure_loop" /\ i_meas = NUM_LINES) =>
        /\ written = Lines
        /\ twice = {}
        /\ Len(order) = NUM_LINES
        /\ {order[p] : p \in 1 .. NUM_LINES} = Lines
        /\ order # [p \in 1 .. NUM_LINES |-> p - 1]
        /\ order[1] = 13 /\ order[2] = 180
        /\ pass > 1 => order = prev_order

C6_Witness ==
    /\ pc = "measure_loop" /\ i_meas = NUM_LINES /\ pass > 1
    /\ written = Lines
    /\ order = prev_order

====
